---- MODULE Spec2Model ----
(***************************************************************************)
(* pyps (src/pyson.py): a writer that synchronises a local JSON            *)
(* configuration into the SSM parameter store as size-bounded chunks.      *)
(*                                                                         *)
(* Texts are sequences of one-character strings.  A ParameterSet is a      *)
(* Python dict of string keys and string values, kept as the sequence of   *)
(* its items in insertion order.  An entry of the store carries its Name   *)
(* without the "{path}/" prefix, which every entry of the one path of a    *)
(* run shares.  Colour escape codes of ct() are left out of printed text.  *)
(***************************************************************************)
EXTENDS Integers, Sequences, FiniteSets, TLC

VARIABLES
    limit,            \* SSM_VALUE_LIMIT, scaled down (pyson.py:19)
    listing_desc,     \* the store lists a path in descending insertion order
    store,            \* the entries under the path, in insertion order
    store_at_start,   \* history: the store when the process started
    last_written,     \* history: the document the last completed write stored
    pc,               \* position of the process inside run()
    json_contents,    \* run: the new configuration document
    config_file,      \* the text of ./.pyps/{environment}.json
    retrieve_chunks,  \* retrieve: the accumulated list `chunks`
    next_token,       \* query_ssm: continuation token of the last response
    consolidated_str, \* retrieve: the concatenated values
    parameters,       \* run: the fetched ParameterSet
    parameters_names, \* run: the fetched physical names
    project_found,    \* run: len(parameters_names) > 0
    message,          \* run: the text of the first prompt
    answers,          \* history: the raw answers typed at the prompts
    missing,          \* get_summary_table: the four key lists
    added,
    changed,
    unchanged,
    lines,            \* run: the summary table
    backup_dir_made,  \* backup: os.makedirs returned
    backup_file,      \* the backup file of this run
    stringified,      \* write: json.dumps(new_parameters)
    write_chunks,     \* write: chunkenize(stringified)
    written,          \* write: the responses collected
    calls,            \* history: delete/put calls issued to the store
    steps,            \* history: the positions the process has acted at
    default_parameters, \* query_ssm: the list its `parameters` defaults to
    reported,         \* the count printed by the last line of run()
    exit_status       \* exit status of the process

vars == <<limit, listing_desc, store, store_at_start, last_written, pc,
          json_contents, config_file, retrieve_chunks, next_token,
          consolidated_str, parameters, parameters_names, project_found,
          message, answers, missing, added, changed, unchanged, lines,
          backup_dir_made, backup_file, stringified, write_chunks, written,
          calls, steps, default_parameters, reported, exit_status>>

(***************************************************************************)
(* Bounds of the model.                                                    *)
(***************************************************************************)
MaxLimit == 3
MaxTextLen == 4
MaxDocKeys == 3

(***************************************************************************)
(* Program constants.                                                      *)
(***************************************************************************)
SSM_VALUE_LIMIT == limit
COLUMN_SPACING == 35
MaxResults == 10

(***************************************************************************)
(* Characters and Python's string order.                                   *)
(***************************************************************************)
AsciiOrder ==
    <<"\n", " ", "\"", ",", "0", "1", "2", "3", "4", "5", "6", "7", "8", "9",
      ":", "N", "Y", "_", "a", "b", "e", "n", "o", "p", "r", "s", "t", "y",
      "{", "}">>

CharCode(c) == CHOOSE i \in 1..Len(AsciiOrder) : AsciiOrder[i] = c

RECURSIVE LexLess(_, _)
LexLess(s, t) ==
    IF s = <<>> THEN t # <<>>
    ELSE IF t = <<>> THEN FALSE
    ELSE IF Head(s) = Head(t) THEN LexLess(Tail(s), Tail(t))
    ELSE CharCode(Head(s)) < CharCode(Head(t))

lower(c) == IF c = "Y" THEN "y" ELSE IF c = "N" THEN "n" ELSE c

Min(a, b) == IF a < b THEN a ELSE b

\* str[i:j] for 0 <= i, 0 <= j
Slice(str, i, j) == SubSeq(str, i + 1, Min(j, Len(str)))

\* range(start, stop, step) for step > 0
RECURSIVE Range(_, _, _)
Range(start, stop, step) ==
    IF start >= stop THEN <<>>
    ELSE <<start>> \o Range(start + step, stop, step)

\* sorted(S) of a set of texts
RECURSIVE sorted(_)
sorted(S) ==
    IF S = {} THEN <<>>
    ELSE LET m == CHOOSE x \in S : \A y \in S \ {x} : LexLess(x, y)
         IN <<m>> \o sorted(S \ {m})

(***************************************************************************)
(* dicts                                                                   *)
(***************************************************************************)
keys(d) == {d[i].key : i \in DOMAIN d}

get(d, k) == (CHOOSE i \in DOMAIN d : d[i].key = k)

item(d, k) == d[get(d, k)].value

\* d[k] = v
setitem(d, k, v) ==
    IF k \in keys(d)
    THEN [d EXCEPT ![get(d, k)] = [key |-> k, value |-> v]]
    ELSE Append(d, [key |-> k, value |-> v])

\* Python's dict equality
DictEq(d, e) ==
    /\ keys(d) = keys(e)
    /\ \A k \in keys(d) : item(d, k) = item(e, k)

(***************************************************************************)
(* json.dumps and json.loads on objects of string members                  *)
(***************************************************************************)
Quoted(s) == <<"\"">> \o s \o <<"\"">>

RECURSIVE dumps_items(_, _, _)
dumps_items(d, i, sep) ==
    IF i > Len(d) THEN <<>>
    ELSE Quoted(d[i].key) \o <<":", " ">> \o Quoted(d[i].value)
         \o (IF i < Len(d) THEN sep ELSE <<>>)
         \o dumps_items(d, i + 1, sep)

\* json.dumps(d)
json_dumps(d) == <<"{">> \o dumps_items(d, 1, <<",", " ">>) \o <<"}">>

\* json.dumps(d, indent=2)
json_dumps_indent(d) ==
    IF d = <<>> THEN <<"{", "}">>
    ELSE <<"{", "\n", " ", " ">>
         \o dumps_items(d, 1, <<",", "\n", " ", " ">>)
         \o <<"\n", "}">>

Whitespace == {" ", "\n"}

At(s, i) == IF i \in 1..Len(s) THEN s[i] ELSE "EOF"

RECURSIVE SkipWs(_, _)
SkipWs(s, i) ==
    IF At(s, i) \in Whitespace THEN SkipWs(s, i + 1) ELSE i

\* the index of the quote closing the string opened before i, 0 if none
RECURSIVE StringEnd(_, _)
StringEnd(s, i) ==
    IF i > Len(s) THEN 0
    ELSE IF s[i] = "\"" THEN i
    ELSE StringEnd(s, i + 1)

LoadsError == [ok |-> FALSE, doc |-> <<>>]

RECURSIVE loads_members(_, _, _)
loads_members(s, i, acc) ==
    IF At(s, i) # "\"" THEN LoadsError
    ELSE
    LET ke == StringEnd(s, i + 1)
        c  == SkipWs(s, ke + 1)
        vs == SkipWs(s, c + 1)
        ve == StringEnd(s, vs + 1)
        n  == SkipWs(s, ve + 1)
    IN  IF ke = 0 \/ At(s, c) # ":" \/ At(s, vs) # "\"" \/ ve = 0
        THEN LoadsError
        ELSE
        LET d == setitem(acc, SubSeq(s, i + 1, ke - 1), SubSeq(s, vs + 1, ve - 1))
        IN  IF At(s, n) = ","
            THEN loads_members(s, SkipWs(s, n + 1), d)
            ELSE IF At(s, n) = "}" /\ SkipWs(s, n + 1) > Len(s)
            THEN [ok |-> TRUE, doc |-> d]
            ELSE LoadsError

\* json.loads(s): ok is FALSE where json.loads raises
json_loads(s) ==
    LET o == SkipWs(s, 1)
        m == SkipWs(s, o + 1)
    IN  IF At(s, o) # "{" THEN LoadsError
        ELSE IF At(s, m) = "}"
        THEN IF SkipWs(s, m + 1) > Len(s)
             THEN [ok |-> TRUE, doc |-> <<>>]
             ELSE LoadsError
        ELSE loads_members(s, m, <<>>)

(***************************************************************************)
(* chunkenize (Chunk Codec Encode) and the reassembly loop of retrieve     *)
(***************************************************************************)
\* the window one character too wide: str[i:i + SSM_VALUE_LIMIT + 1]
chunkenize_overlap(str) ==
    LET string_length == Len(str)
        starts == Range(0, string_length, SSM_VALUE_LIMIT)
    IN  [n \in 1..Len(starts) |->
            Slice(str, starts[n], starts[n] + SSM_VALUE_LIMIT + 1)]

\* the range one short: range(0, string_length - 1, SSM_VALUE_LIMIT)
chunkenize_short(str) ==
    LET string_length == Len(str)
        starts == Range(0, string_length - 1, SSM_VALUE_LIMIT)
    IN  [n \in 1..Len(starts) |-> Slice(str, starts[n], starts[n] + SSM_VALUE_LIMIT)]

chunkenize(str) ==
    LET string_length == Len(str)
        starts == Range(0, string_length, SSM_VALUE_LIMIT)
    IN  [n \in 1..Len(starts) |-> Slice(str, starts[n], starts[n] + SSM_VALUE_LIMIT)]

\* for chunk in chunks: consolidated_str += chunk.get('Value')
RECURSIVE consolidate(_)
consolidate(chunks) ==
    IF chunks = <<>> THEN <<>>
    ELSE Head(chunks).Value \o consolidate(Tail(chunks))

\* the last name never appended
names_of_but_last(chunks) ==
    [n \in 1..(Len(chunks) - 1) |-> chunks[n].Name]

\* for chunk in chunks: keys.append(chunk.get('Name'))
names_of(chunks) == [n \in 1..Len(chunks) |-> chunks[n].Name]

(***************************************************************************)
(* physical names and the order retrieve puts them in                      *)
(***************************************************************************)
Digit == <<"0", "1", "2", "3", "4", "5", "6", "7", "8", "9">>

\* '{}'.format(n) of an int n >= 0
RECURSIVE format_int(_)
format_int(n) ==
    IF n < 10 THEN <<Digit[n + 1]>>
    ELSE format_int(n \div 10) \o <<Digit[(n % 10) + 1]>>

\* '{}/part_{}'.format(path, index), without the "{path}/" every name shares
part_name(index) == <<"p", "a", "r", "t", "_">> \o format_int(index)

\* x goes behind every element that is not greater: the sort is stable
RECURSIVE insert_by_name(_, _)
insert_by_name(s, x) ==
    IF s = <<>> THEN <<x>>
    ELSE IF LexLess(x.Name, Head(s).Name) THEN <<x>> \o s
    ELSE <<Head(s)>> \o insert_by_name(Tail(s), x)

RECURSIVE sort_from(_, _)
sort_from(done, rest) ==
    IF rest = <<>> THEN done
    ELSE sort_from(insert_by_name(done, Head(rest)), Tail(rest))

\* chunks.sort(key=lambda item: item.get('Name'))
sort_by_name(chunks) == sort_from(<<>>, chunks)

\* the except branch without fail_and_die: consolidated stays {}
retrieve_parse_swallow(str) ==
    LET r == json_loads(str)
    IN  [died |-> FALSE, consolidated |-> r.doc]

\* the try/except around json.loads: died where fail_and_die is called
retrieve_parse(str) ==
    LET r == json_loads(str)
    IN  IF r.ok THEN [died |-> FALSE, consolidated |-> r.doc]
        ELSE [died |-> TRUE, consolidated |-> <<>>]

(***************************************************************************)
(* get_summary_table                                                       *)
(***************************************************************************)
\* the difference forgotten: sorted(set(old_keys))
summary_missing_all(old, new) == sorted(keys(old))

summary_missing(old, new) == sorted(keys(old) \ keys(new))

summary_added(old, new) == sorted(keys(new) \ keys(old))

common_keys(old, new) == sorted(keys(old) \cap keys(new))

\* the comparison inverted: old[key] != new[key]
summary_unchanged_inverted(old, new) ==
    LET differ(key) == ~(item(old, key) = item(new, key))
    IN  SelectSeq(common_keys(old, new), differ)

summary_unchanged(old, new) ==
    LET same(key) == item(old, key) = item(new, key)
    IN  SelectSeq(common_keys(old, new), same)

summary_changed(old, new) ==
    LET differ(key) == ~(item(old, key) = item(new, key))
    IN  SelectSeq(common_keys(old, new), differ)

safe_get(array, index) ==
    IF index + 1 \in DOMAIN array THEN array[index + 1] ELSE <<>>

ljust(s, width) == s \o [n \in 1..(width - Len(s)) |-> " "]

Max(a, b) == IF a > b THEN a ELSE b

\* the rows stop at the shortest list
summary_limit_shortest(m, a, c, u) ==
    Min(Min(Len(m), Len(a)), Min(Len(c), Len(u)))

\* limit = max(len(missing), len(added), len(changed), len(unchanged))
summary_limit(m, a, c, u) == Max(Max(Len(m), Len(a)), Max(Len(c), Len(u)))

\* the lines built from the four lists: the title line, the rule, the rows
summary_lines(m, a, c, u) ==
    <<[kind |-> "titles", width |-> COLUMN_SPACING],
      [kind |-> "rule", width |-> COLUMN_SPACING * 4]>>
    \o [ix \in 1..summary_limit(m, a, c, u) |->
          [kind |-> "row",
           cells |-> <<ljust(safe_get(m, ix - 1), COLUMN_SPACING),
                       ljust(safe_get(a, ix - 1), COLUMN_SPACING),
                       ljust(safe_get(c, ix - 1), COLUMN_SPACING),
                       safe_get(u, ix - 1)>>]]

get_summary_table(old, new) ==
    summary_lines(summary_missing(old, new), summary_added(old, new),
                  summary_changed(old, new), summary_unchanged(old, new))

(***************************************************************************)
(* confirm_or_die                                                          *)
(***************************************************************************)
\* the default turned into yes: result[:1].lower() == 'n'
refuses_only_no(result) ==
    LET first == Slice(result, 0, 1)
    IN  [n \in 1..Len(first) |-> lower(first[n])] = <<"n">>

\* result[:1].lower() != 'y'
refuses(result) ==
    LET first == Slice(result, 0, 1)
    IN  [n \in 1..Len(first) |-> lower(first[n])] # <<"y">>

(***************************************************************************)
(* Inputs                                                                  *)
(***************************************************************************)
KV(k, v) == [key |-> <<k>>, value |-> <<v>>]

\* the documents the runs load
RunDocs ==
    { <<>>,
      <<KV("a", "1")>>,
      <<KV("a", "2")>>,
      <<KV("a", "1"), KV("b", "2")>>,
      <<KV("b", "1"), KV("a", "1")>> }

\* a file json.load cannot parse
BadFile == <<"{", "\"", "a">>

ConfigFiles == {json_dumps(d) : d \in RunDocs} \cup {BadFile}

\* what the user types at a prompt
Answers == { <<>>, <<"y">>, <<"Y", "e", "s">>, <<"n">>, <<"N", "o">> }

NoDocument == [set |-> FALSE, doc |-> <<>>]

(***************************************************************************)
(* The process                                                             *)
(***************************************************************************)
envVars == <<limit, listing_desc>>
retrieveVars == <<retrieve_chunks, next_token, consolidated_str, parameters,
                  parameters_names, project_found, message,
                  default_parameters>>
summaryVars == <<missing, added, changed, unchanged, lines>>
backupVars == <<backup_dir_made, backup_file>>
writeVars == <<stringified, write_chunks, written>>

\* the locals of a process that has just started, but for the four below
Unset ==
    /\ retrieve_chunks = <<>>
    /\ next_token = <<>>
    /\ consolidated_str = <<>>
    /\ parameters_names = <<>>
    /\ project_found = FALSE
    /\ message = "none"
    /\ answers = <<>>
    /\ missing = <<>>
    /\ added = <<>>
    /\ changed = <<>>
    /\ unchanged = <<>>
    /\ lines = <<>>
    /\ backup_dir_made = FALSE
    /\ backup_file = <<>>
    /\ write_chunks = <<>>
    /\ written = <<>>
    /\ calls = <<>>
    /\ steps = <<>>
    /\ default_parameters = <<>>
    /\ reported = <<>>
    /\ exit_status = <<>>

Fresh ==
    /\ pc = "load"
    /\ json_contents = <<>>
    /\ parameters = <<>>
    /\ stringified = <<>>
    /\ Unset

Init ==
    /\ limit \in 1..MaxLimit
    /\ listing_desc \in BOOLEAN
    /\ store = <<>>
    /\ store_at_start = <<>>
    /\ last_written = NoDocument
    /\ config_file \in ConfigFiles
    /\ Fresh

\* the process acts at its position: steps lists the positions in order
Visit ==
    steps' = IF steps # <<>> /\ steps[Len(steps)] = pc
             THEN steps ELSE Append(steps, pc)

\* exit(): SystemExit with no code, status 0
exit ==
    /\ pc' = "exited"
    /\ exit_status' = <<0>>

\* the message printed and no exit(): the caller goes on where it stands
fail_and_go_on ==
    /\ pc' = pc
    /\ UNCHANGED exit_status

\* fail_and_die: the message is printed, then exit()
fail_and_die == exit

\* an exception nothing catches ends the interpreter with status 1
uncaught ==
    /\ pc' = "exited"
    /\ exit_status' = <<1>>

\* load_new_parameters(environment)
LoadNewParameters ==
    /\ pc = "load"
    /\ Visit
    /\ LET r == json_loads(config_file)
       IN  IF r.ok
           THEN /\ json_contents' = r.doc
                /\ pc' = "query"
                /\ UNCHANGED exit_status
           ELSE /\ fail_and_die
                /\ UNCHANGED json_contents
    /\ UNCHANGED <<envVars, store, store_at_start, last_written, config_file,
                   retrieveVars, answers, summaryVars, backupVars, writeVars,
                   calls, reported>>

\* what get_parameters_by_path lists under the path
listing == IF listing_desc
           THEN [n \in 1..Len(store) |-> store[Len(store) + 1 - n]]
           ELSE store

\* the call that restarts from the first page: NextToken never passed
query_token_none == <<>>

\* the token a call of query_ssm passes to the store: its next_token argument
\* (kwargs['NextToken'] = next_token when one was passed)
query_token == next_token

token_offset == IF query_token = <<>> THEN 0 ELSE query_token[1]

\* parameters += response.get('Parameters', []): the list passed in is
\* extended in place
query_accumulate_inplace(argument, page) ==
    [parameters |-> argument \o page, argument |-> argument \o page]

\* parameters = parameters + response.get('Parameters', []): the new list
\* bound to the name, and the list object that was passed in
query_accumulate(argument, page) ==
    [parameters |-> argument \o page, argument |-> argument]

\* the call retrieve makes, which passes neither parameters nor next_token
first_call == next_token = <<>>

\* the sizes a page starting at offset may have
page_sizes(offset) ==
    IF offset = Len(listing) THEN {0}
    ELSE 1..Min(MaxResults, Len(listing) - offset)

\* one call of query_ssm: a response of the store, accumulated
QuerySsm ==
    /\ pc = "query"
    /\ Visit
    /\ \E size \in page_sizes(token_offset) :
         LET page == SubSeq(listing, token_offset + 1, token_offset + size)
             token == IF token_offset + size < Len(listing)
                      THEN <<token_offset + size>> ELSE <<>>
             got == query_accumulate(IF first_call THEN default_parameters
                                     ELSE retrieve_chunks, page)
         IN  /\ retrieve_chunks' = got.parameters
             /\ default_parameters' = IF first_call THEN got.argument
                                      ELSE default_parameters
             /\ next_token' = token
             /\ pc' = IF token # <<>> THEN "query" ELSE "consolidate"
    /\ UNCHANGED <<envVars, store, store_at_start, last_written, json_contents,
                   config_file, consolidated_str, parameters, parameters_names,
                   project_found, message, answers, summaryVars, backupVars,
                   writeVars, calls, reported, exit_status>>

\* get_parameters_by_path raises
QuerySsmFails ==
    /\ pc = "query"
    /\ Visit
    /\ uncaught
    /\ UNCHANGED <<envVars, store, store_at_start, last_written, json_contents,
                   config_file, retrieveVars, answers, summaryVars, backupVars,
                   writeVars, calls, reported>>

\* the comparison off by one: len(parameters_names) >= 0
is_found_always(names) == Len(names) >= 0

\* the test made on the parsed document: len(parameters) > 0
is_found_parsed(names) == parameters' # <<>>

\* project_found = len(parameters_names) > 0
is_found(names) == Len(names) > 0

\* the first prompt of run(), chosen from project_found
first_message(found) == IF found THEN "replace" ELSE "add"

\* the rest of retrieve once the pages are in, and run() up to the first prompt
RetrieveConsolidate ==
    /\ pc = "consolidate"
    /\ Visit
    /\ IF retrieve_chunks = <<>>
       THEN /\ parameters' = <<>>
            /\ parameters_names' = <<>>
            /\ project_found' = is_found(<<>>)
            /\ message' = first_message(is_found(<<>>))
            /\ pc' = "confirm1"
            /\ UNCHANGED <<retrieve_chunks, consolidated_str, exit_status>>
       ELSE LET chunks == sort_by_name(retrieve_chunks)
                str == consolidate(chunks)
                got == retrieve_parse(str)
            IN  /\ retrieve_chunks' = chunks
                /\ consolidated_str' = str
                /\ IF got.died
                   THEN /\ fail_and_die
                        /\ UNCHANGED <<parameters, parameters_names,
                                       project_found, message>>
                   ELSE /\ parameters' = got.consolidated
                        /\ parameters_names' = names_of(chunks)
                        /\ project_found' = is_found(names_of(chunks))
                        /\ message' = first_message(is_found(names_of(chunks)))
                        /\ pc' = "confirm1"
                        /\ UNCHANGED exit_status
    /\ UNCHANGED <<envVars, store, store_at_start, last_written, json_contents,
                   config_file, next_token, default_parameters,
                   answers, summaryVars, backupVars,
                   writeVars, calls, reported>>

\* confirm_or_die(message) at either gate
confirm_or_die(gate, next) ==
    /\ pc = gate
    /\ Visit
    /\ \E result \in Answers :
         /\ answers' = Append(answers, result)
         /\ IF refuses(result)
            THEN exit
            ELSE /\ pc' = next
                 /\ UNCHANGED exit_status
    /\ UNCHANGED <<envVars, store, store_at_start, last_written, json_contents,
                   config_file, retrieveVars, summaryVars, backupVars,
                   writeVars, calls, reported>>

ConfirmFirst == confirm_or_die("confirm1", "summary")

\* get_summary_table(parameters, json_contents) and its printing
SummaryTable ==
    /\ pc = "summary"
    /\ Visit
    /\ missing' = summary_missing(parameters, json_contents)
    /\ added' = summary_added(parameters, json_contents)
    /\ changed' = summary_changed(parameters, json_contents)
    /\ unchanged' = summary_unchanged(parameters, json_contents)
    /\ lines' = get_summary_table(parameters, json_contents)
    /\ pc' = "confirm2"
    /\ UNCHANGED <<envVars, store, store_at_start, last_written, json_contents,
                   config_file, retrieveVars, answers, backupVars, writeVars,
                   calls, reported, exit_status>>

\* the write reached without the backup and the delete
after_proceed_write(found) == "dumps"

\* where run() goes once the second prompt is accepted
after_proceed(found) == IF found THEN "backup" ELSE "dumps"

ConfirmSecond == confirm_or_die("confirm2", after_proceed(project_found))

\* the new document saved instead of the fetched one
backup_text_new(old, new) == json_dumps_indent(new)

\* backup(): the text written to the backup file
backup_text(old, new) == json_dumps_indent(old)

\* backup(): os.makedirs returns
BackupMakedirs ==
    /\ pc = "backup"
    /\ Visit
    /\ backup_dir_made' = TRUE
    /\ pc' = "backup_write"
    /\ UNCHANGED <<envVars, store, store_at_start, last_written, json_contents,
                   config_file, retrieveVars, answers, summaryVars,
                   backup_file, writeVars, calls, reported, exit_status>>

\* backup(): os.makedirs raises, which is caught
BackupMakedirsFails ==
    /\ pc = "backup"
    /\ Visit
    /\ fail_and_die
    /\ UNCHANGED <<envVars, store, store_at_start, last_written, json_contents,
                   config_file, retrieveVars, answers, summaryVars, backupVars,
                   writeVars, calls, reported>>

\* backup(): the file is opened and written
BackupWrite ==
    /\ pc = "backup_write"
    /\ Visit
    /\ backup_file' = <<backup_text(parameters, json_contents)>>
    /\ pc' = "delete"
    /\ UNCHANGED <<envVars, store, store_at_start, last_written, json_contents,
                   config_file, retrieveVars, answers, summaryVars,
                   backup_dir_made, writeVars, calls, reported, exit_status>>

\* backup(): open or write raises; the file is absent or left empty
BackupWriteFails ==
    /\ pc = "backup_write"
    /\ Visit
    /\ backup_file' \in { <<>>, << <<>> >> }
    /\ uncaught
    /\ UNCHANGED <<envVars, store, store_at_start, last_written, json_contents,
                   config_file, retrieveVars, answers, summaryVars,
                   backup_dir_made, writeVars, calls, reported>>

\* ssm.delete_parameters(Names=parameters_names)
DeleteParameters ==
    /\ pc = "delete"
    /\ Visit
    /\ LET kept(entry) == \A n \in DOMAIN parameters_names :
                              parameters_names[n] # entry.Name
       IN  store' = SelectSeq(store, kept)
    /\ calls' = Append(calls, [op |-> "delete", ok |-> TRUE,
                               Names |-> parameters_names])
    /\ last_written' = NoDocument
    /\ pc' = "dumps"
    /\ UNCHANGED <<envVars, store_at_start, json_contents, config_file,
                   retrieveVars, answers, summaryVars, backupVars, writeVars,
                   reported, exit_status>>

\* the exception of delete_parameters swallowed: run() goes on to write
delete_raises_ignored ==
    /\ pc' = "dumps"
    /\ UNCHANGED exit_status

\* run() has no handler around ssm.delete_parameters
delete_raises == uncaught

\* ssm.delete_parameters raises
DeleteParametersFails ==
    /\ pc = "delete"
    /\ Visit
    /\ calls' = Append(calls, [op |-> "delete", ok |-> FALSE,
                               Names |-> parameters_names])
    /\ delete_raises
    /\ UNCHANGED <<envVars, store, store_at_start, last_written, json_contents,
                   config_file, retrieveVars, answers, summaryVars, backupVars,
                   writeVars, reported>>

\* write(): stringified = json.dumps(new_parameters)
WriteDumps ==
    /\ pc = "dumps"
    /\ Visit
    /\ stringified' = json_dumps(json_contents)
    /\ pc' = "chunkenize"
    /\ UNCHANGED <<envVars, store, store_at_start, last_written, json_contents,
                   config_file, retrieveVars, answers, summaryVars, backupVars,
                   write_chunks, written, calls, reported, exit_status>>

\* write(): chunks = chunkenize(stringified); written = []
WriteChunkenize ==
    /\ pc = "chunkenize"
    /\ Visit
    /\ write_chunks' = chunkenize(stringified)
    /\ written' = <<>>
    /\ pc' = "put"
    /\ UNCHANGED <<envVars, store, store_at_start, last_written, json_contents,
                   config_file, retrieveVars, answers, summaryVars, backupVars,
                   stringified, calls, reported, exit_status>>

\* enumerate(chunks, 1)
enumerate_index_from_one(n) == n + 1

\* the index enumerate(chunks) gives the n-th chunk, n counted from 0
enumerate_index(n) == n

\* the entry put_parameter is called with for the next chunk
next_put ==
    [Name |-> part_name(enumerate_index(Len(written))),
     Value |-> write_chunks[Len(written) + 1]]

\* write(): one ssm.put_parameter of the loop
WritePut ==
    /\ pc = "put"
    /\ Visit
    /\ Len(written) < Len(write_chunks)
    /\ \A n \in DOMAIN store : store[n].Name # next_put.Name
    /\ store' = Append(store, next_put)
    /\ written' = Append(written, next_put.Name)
    /\ calls' = Append(calls, [op |-> "put", ok |-> TRUE,
                               Name |-> next_put.Name, Value |-> next_put.Value])
    /\ last_written' = NoDocument
    /\ UNCHANGED <<envVars, store_at_start, pc, json_contents, config_file,
                   retrieveVars, answers, summaryVars, backupVars, stringified,
                   write_chunks, reported, exit_status>>

\* write(): ssm.put_parameter raises, which is caught
WritePutFails ==
    /\ pc = "put"
    /\ Visit
    /\ Len(written) < Len(write_chunks)
    /\ calls' = Append(calls, [op |-> "put", ok |-> FALSE,
                               Name |-> next_put.Name, Value |-> next_put.Value])
    /\ fail_and_die
    /\ UNCHANGED <<envVars, store, store_at_start, last_written, json_contents,
                   config_file, retrieveVars, answers, summaryVars, backupVars,
                   writeVars, reported>>

\* the count run() prints
written_count(written_keys) == Len(written_keys)

\* write() returns; run() prints the count and ends
Report ==
    /\ pc = "put"
    /\ Visit
    /\ Len(written) = Len(write_chunks)
    /\ reported' = <<written_count(written)>>
    /\ last_written' = [set |-> TRUE, doc |-> json_contents]
    /\ pc' = "done"
    /\ exit_status' = <<0>>
    /\ UNCHANGED <<envVars, store, store_at_start, json_contents, config_file,
                   retrieveVars, answers, summaryVars, backupVars, writeVars,
                   calls>>

\* the tool is started again on the same path
Rerun ==
    /\ pc \in {"exited", "done"}
    /\ config_file' \in ConfigFiles
    /\ store_at_start' = store
    /\ pc' = "load"
    /\ json_contents' = <<>>
    /\ retrieve_chunks' = <<>>
    /\ next_token' = <<>>
    /\ consolidated_str' = <<>>
    /\ parameters' = <<>>
    /\ parameters_names' = <<>>
    /\ project_found' = FALSE
    /\ message' = "none"
    /\ answers' = <<>>
    /\ missing' = <<>>
    /\ added' = <<>>
    /\ changed' = <<>>
    /\ unchanged' = <<>>
    /\ lines' = <<>>
    /\ backup_dir_made' = FALSE
    /\ backup_file' = <<>>
    /\ stringified' = <<>>
    /\ write_chunks' = <<>>
    /\ written' = <<>>
    /\ calls' = <<>>
    /\ steps' = <<>>
    /\ default_parameters' = <<>>
    /\ reported' = <<>>
    /\ exit_status' = <<>>
    /\ UNCHANGED <<envVars, store, last_written>>

Next ==
    \/ LoadNewParameters
    \/ QuerySsm
    \/ QuerySsmFails
    \/ RetrieveConsolidate
    \/ ConfirmFirst
    \/ SummaryTable
    \/ ConfirmSecond
    \/ BackupMakedirs
    \/ BackupMakedirsFails
    \/ BackupWrite
    \/ BackupWriteFails
    \/ DeleteParameters
    \/ DeleteParametersFails
    \/ WriteDumps
    \/ WriteChunkenize
    \/ WritePut
    \/ WritePutFails
    \/ Report
    \/ Rerun

Spec == Init /\ [][Next]_vars

(***************************************************************************)
(* chunkenize on any text: the process stands before the call in write()   *)
(***************************************************************************)
Texts == UNION {[1..n -> {"a", "b"}] : n \in 0..MaxTextLen}

InitCodec ==
    /\ limit \in 1..MaxLimit
    /\ listing_desc = FALSE
    /\ store = <<>>
    /\ store_at_start = <<>>
    /\ last_written = NoDocument
    /\ config_file = json_dumps(<<>>)
    /\ pc = "chunkenize"
    /\ json_contents = <<>>
    /\ parameters = <<>>
    /\ stringified \in Texts
    /\ Unset

SpecCodec == InitCodec /\ [][WriteChunkenize]_vars

(***************************************************************************)
(* get_summary_table on any two ParameterSets: the process stands before   *)
(* the call in run()                                                       *)
(***************************************************************************)
DiffKeys == { <<"a">>, <<"a", "b">>, <<"b">>, <<"n">> }

\* the values an old item and a new item may have
OldValues == { <<"1">>, <<"2">> }

NewValues == { <<"1">>, <<"3">> }

\* dicts of at most MaxDocKeys items, inserted in ascending or in descending
\* order of their keys
DiffDocs(values) ==
    { d \in UNION {[1..n -> [key : DiffKeys, value : values]] :
                        n \in 0..MaxDocKeys} :
        \/ \A i, j \in DOMAIN d : i < j => LexLess(d[i].key, d[j].key)
        \/ \A i, j \in DOMAIN d : i < j => LexLess(d[j].key, d[i].key) }

InitDiff ==
    /\ limit = 1
    /\ listing_desc = FALSE
    /\ store = <<>>
    /\ store_at_start = <<>>
    /\ last_written = NoDocument
    /\ config_file = json_dumps(<<>>)
    /\ pc = "summary"
    /\ json_contents \in DiffDocs(NewValues)
    /\ parameters \in DiffDocs(OldValues)
    /\ stringified = <<>>
    /\ Unset

SpecDiff == InitDiff /\ [][SummaryTable]_vars

(***************************************************************************)
(* Properties of the chunk codec, under SpecCodec                          *)
(***************************************************************************)
\* the segments as the entries write() stores them
AsEntries(segments) ==
    [n \in 1..Len(segments) |-> [Name |-> part_name(n - 1), Value |-> segments[n]]]

\* C1: concatenating in order the segments chunkenize produces from a text
\* yields the text, and no segment is longer than the limit.
ChunkRoundTrip ==
    pc = "put" =>
        /\ consolidate(AsEntries(write_chunks)) = stringified
        /\ \A n \in DOMAIN write_chunks : Len(write_chunks[n]) <= limit

\* a text split into several segments, the last one shorter than the limit
ChunkRoundTripWitness ==
    /\ pc = "put"
    /\ Len(write_chunks) >= 2
    /\ Len(write_chunks[Len(write_chunks)]) < limit
    /\ \E n \in DOMAIN stringified : stringified[n] # stringified[1]

CeilDiv(n, d) == (n + d - 1) \div d

\* C10: a non-empty text of length n gives ceil(n / limit) segments, all but
\* possibly the last of length limit; the empty text gives none.
SegmentCount ==
    pc = "put" =>
        /\ Len(write_chunks) = CeilDiv(Len(stringified), limit)
        /\ \A n \in 1..(Len(write_chunks) - 1) : Len(write_chunks[n]) = limit
        /\ stringified = <<>> => write_chunks = <<>>
        /\ stringified # <<>> => write_chunks # <<>>

\* four characters under limit three: two segments, of three and of one
SegmentCountWitness ==
    /\ pc = "put"
    /\ Len(stringified) = 4
    /\ limit = 3
    /\ Len(write_chunks) = 2

(***************************************************************************)
(* Properties of the diff, under SpecDiff                                  *)
(***************************************************************************)
Elements(list) == {list[n] : n \in DOMAIN list}

NoRepeat(list) == \A i, j \in DOMAIN list : i # j => list[i] # list[j]

\* C7: the four key lists of get_summary_table are pairwise disjoint and
\* their union is old.keys with new.keys, so that every key of either input
\* is in exactly one list, once.
DiffPartition ==
    pc = "confirm2" =>
        /\ Elements(missing) \cap Elements(added) = {}
        /\ Elements(missing) \cap Elements(changed) = {}
        /\ Elements(missing) \cap Elements(unchanged) = {}
        /\ Elements(added) \cap Elements(changed) = {}
        /\ Elements(added) \cap Elements(unchanged) = {}
        /\ Elements(changed) \cap Elements(unchanged) = {}
        /\ Elements(missing) \cup Elements(added) \cup Elements(changed)
              \cup Elements(unchanged) = keys(parameters) \cup keys(json_contents)
        /\ NoRepeat(missing) /\ NoRepeat(added)
        /\ NoRepeat(changed) /\ NoRepeat(unchanged)

\* all four lists are inhabited at once
DiffPartitionWitness ==
    /\ pc = "confirm2"
    /\ missing # <<>>
    /\ added # <<>>
    /\ changed # <<>>
    /\ unchanged # <<>>

Ascending(list) ==
    \A i, j \in DOMAIN list : i < j => LexLess(list[i], list[j])

ValueOf(d, k) == CHOOSE v \in OldValues \cup NewValues : \E n \in DOMAIN d : d[n] = [key |-> k, value |-> v]

\* C8: deleted = old_keys - new_keys, added = new_keys - old_keys, a common
\* key is in unchanged when its two values are equal and in changed
\* otherwise, and each list is in ascending lexical order.
DiffClassification ==
    pc = "confirm2" =>
        /\ Elements(missing) = keys(parameters) \ keys(json_contents)
        /\ Elements(added) = keys(json_contents) \ keys(parameters)
        /\ \A k \in keys(parameters) \cap keys(json_contents) :
              IF ValueOf(parameters, k) = ValueOf(json_contents, k)
              THEN k \in Elements(unchanged) /\ k \notin Elements(changed)
              ELSE k \in Elements(changed) /\ k \notin Elements(unchanged)
        /\ Elements(changed) \cup Elements(unchanged)
              \subseteq keys(parameters) \cap keys(json_contents)
        /\ Ascending(missing) /\ Ascending(added)
        /\ Ascending(changed) /\ Ascending(unchanged)

\* old = {a: 1, b: 2}, new = {a: 1, b: 3}
DiffClassificationWitness ==
    /\ pc = "confirm2"
    /\ parameters = <<KV("a", "1"), KV("b", "2")>>
    /\ json_contents = <<KV("a", "1"), KV("b", "3")>>
    /\ unchanged = << <<"a">> >>
    /\ changed = << <<"b">> >>
    /\ missing = <<>>
    /\ added = <<>>

(***************************************************************************)
(* Properties of the run, under Spec                                       *)
(***************************************************************************)
\* the user's answer is not a yes
Declines(answer) == answer = <<>> \/ answer[1] \notin {"y", "Y"}

Calls(op) == LET is(call) == call.op = op IN SelectSeq(calls, is)

\* retrieve got as far as reassembling the values of fetched entries
Reassembled == consolidated_str # <<>>

\* C2: a document stored by a completed write on an empty path is what the
\* next retrieve reassembles and returns, whatever the number of chunks.
StoreRoundTrip ==
    (last_written.set /\ pc # "done" /\ Reassembled) =>
        /\ consolidated_str = json_dumps(last_written.doc)
        /\ message # "none"
        /\ DictEq(parameters, last_written.doc)

\* C3: once the user has declined a gate, the process has exited with status
\* 0, no backup file exists, no delete and no put was issued, and the store
\* is as it was when the process started.
DeclinePath ==
    (\E n \in DOMAIN answers : Declines(answers[n])) =>
        /\ pc = "exited"
        /\ exit_status = <<0>>
        /\ backup_file = <<>>
        /\ calls = <<>>
        /\ written = <<>>
        /\ store = store_at_start

\* an existing project, the first gate accepted and the second declined
DeclinePathWitness ==
    /\ Len(answers) = 2
    /\ ~Declines(answers[1])
    /\ Declines(answers[2])
    /\ project_found
    /\ store # <<>>

\* the backup file holds the fetched ParameterSet
BackupHeld ==
    /\ backup_file # <<>>
    /\ json_loads(backup_file[1]).ok
    /\ DictEq(json_loads(backup_file[1]).doc, parameters)

\* C4: on an existing project a delete or a put is issued, and the run is
\* past the backup step, only with a backup of the fetched ParameterSet
\* written; a failed backup step leaves the process exited with no call made.
BackupBeforeDestroy ==
    project_found =>
        /\ calls # <<>> => BackupHeld
        /\ store # store_at_start => BackupHeld
        /\ pc \in {"delete", "dumps", "chunkenize", "put", "done"} => BackupHeld
        /\ (Len(answers) = 2 /\ ~Declines(answers[2]) /\ ~BackupHeld)
              => pc \in {"backup", "backup_write", "exited"}

\* the old entries are deleted, and the document saved differs from the new
BackupBeforeDestroyWitness ==
    /\ project_found
    /\ \E n \in DOMAIN calls : calls[n].op = "delete" /\ calls[n].ok
    /\ store = <<>>
    /\ store_at_start # <<>>
    /\ ~DictEq(parameters, json_contents)

\* C5: when the fetch returns no entry, retrieve returns an empty
\* ParameterSet and no name, the project counts as not found, and the run
\* makes no backup and no delete: past the second gate it is in write.
NewProject ==
    (message # "none" /\ retrieve_chunks = <<>>) =>
        /\ parameters = <<>>
        /\ parameters_names = <<>>
        /\ ~project_found
        /\ message = "add"
        /\ ~backup_dir_made
        /\ backup_file = <<>>
        /\ Calls("delete") = <<>>
        /\ (Len(answers) = 2 /\ ~Declines(answers[2]) /\ pc # "exited")
              => pc \in {"dumps", "chunkenize", "put", "done"}

\* a new project being written
NewProjectWitness ==
    /\ message # "none"
    /\ retrieve_chunks = <<>>
    /\ pc = "put"
    /\ written # <<>>

\* C6: when the reassembled text does not parse, the process has exited
\* inside retrieve: no prompt was answered, no table was built, no backup,
\* no delete and no put was made.
FatalOnBadRemote ==
    (Reassembled /\ ~json_loads(consolidated_str).ok) =>
        /\ pc = "exited"
        /\ message = "none"
        /\ answers = <<>>
        /\ lines = <<>>
        /\ ~backup_dir_made
        /\ backup_file = <<>>
        /\ calls = <<>>
        /\ store = store_at_start

\* entries left by an interrupted write do not parse
FatalOnBadRemoteWitness ==
    /\ Reassembled
    /\ ~json_loads(consolidated_str).ok
    /\ pc = "exited"
    /\ Len(retrieve_chunks) <= 9

\* the decimal numeral of n < 100
Numeral(n) ==
    IF n < 10 THEN <<Digit[n + 1]>>
    ELSE <<Digit[(n \div 10) + 1], Digit[(n % 10) + 1]>>

\* C9: a completed write of a text of length n > 0 has issued ceil(n / limit)
\* puts, all successful, named part_0, part_1, ... in order, the i-th with
\* the i-th window of the text, and the count reported is their number.
WrittenEntries ==
    (pc = "done" /\ Len(stringified) > 0) =>
        LET puts == Calls("put")
        IN  /\ Len(puts) = CeilDiv(Len(stringified), limit)
            /\ \A n \in DOMAIN puts :
                  /\ puts[n].ok
                  /\ puts[n].Name = <<"p", "a", "r", "t", "_">> \o Numeral(n - 1)
                  /\ puts[n].Value =
                        SubSeq(stringified, (n - 1) * limit + 1,
                               Min(n * limit, Len(stringified)))
            /\ reported = <<Len(puts)>>
            /\ stringified = json_dumps(json_contents)

\* more than ten entries written and reported
WrittenEntriesWitness ==
    /\ pc = "done"
    /\ Len(Calls("put")) > 10
    /\ reported = <<Len(written)>>
    /\ Len(store) = Len(written)

\* the process has exited at the given position
Died(step) ==
    /\ pc = "exited"
    /\ steps # <<>>
    /\ steps[Len(steps)] = step

\* C11: a run ended by a fatal error (the local file does not parse, the
\* remote text does not parse, the backup directory cannot be made, a put
\* fails) has a non-zero exit status; a completed or declined run has 0.
ExitStatus ==
    /\ (Died("load") \/ Died("consolidate") \/ Died("backup") \/ Died("put"))
          => exit_status \notin { <<>>, <<0>> }
    /\ (pc = "done" \/ Died("confirm1") \/ Died("confirm2"))
          => exit_status = <<0>>

\* C12: once a put has failed, it is the last call of the run: the process
\* has exited without reporting a count, and the store holds exactly the
\* entries part_0 .. part_{i-1} put before it, with their segments.
WriteFailureFatal ==
    (\E n \in DOMAIN calls : calls[n].op = "put" /\ ~calls[n].ok) =>
        LET puts == Calls("put")
            i == Len(puts) - 1
        IN  /\ pc = "exited"
            /\ reported = <<>>
            /\ ~calls[Len(calls)].ok
            /\ \A n \in 1..(Len(calls) - 1) : calls[n].ok
            /\ Len(written) = i
            /\ puts[i + 1].Value = write_chunks[i + 1]
            /\ store = [n \in 1..i |->
                          [Name |-> <<"p", "a", "r", "t", "_">> \o Numeral(n - 1),
                           Value |-> write_chunks[n]]]

\* an existing project replaced, the put of the third segment failing
WriteFailureFatalWitness ==
    /\ project_found
    /\ Len(Calls("put")) = 3
    /\ ~calls[Len(calls)].ok
    /\ Len(store) = 2
    /\ Len(write_chunks) > 3

\* C14: once the delete call of an existing project has failed, the process
\* has ended on the exception: no put was issued, nothing is reported, and
\* the store is as it was.
DeleteFailureStops ==
    (\E n \in DOMAIN calls : calls[n].op = "delete" /\ ~calls[n].ok) =>
        /\ project_found
        /\ pc = "exited"
        /\ exit_status = <<1>>
        /\ Calls("put") = <<>>
        /\ written = <<>>
        /\ reported = <<>>
        /\ store = store_at_start

\* the delete of the fetched names failed after the backup was written
DeleteFailureStopsWitness ==
    /\ Len(calls) = 1
    /\ calls[1].op = "delete"
    /\ ~calls[1].ok
    /\ calls[1].Names = parameters_names
    /\ BackupHeld
    /\ store # <<>>

\* ---------------------------------------------------------------------
\* C13  Pagination follow: every query of a fetch passes the token of the
\* previous response (none on the first), the entries of its response are
\* appended to what the earlier pages gave, in page order, so that the
\* accumulated list is the listing up to the place the new token names,
\* and the fetch goes on exactly while the response carries a token.
PageStart == IF next_token = <<>> THEN 0 ELSE next_token[1]

PageEnd == IF next_token' = <<>> THEN Len(listing) ELSE next_token'[1]

PaginationFollow ==
    [][(pc = "query" /\ exit_status' = <<>>)
         => /\ Len(retrieve_chunks) = PageStart
            /\ PageStart <= PageEnd
            /\ PageEnd - PageStart <= MaxResults
            /\ retrieve_chunks' = retrieve_chunks
                                    \o SubSeq(listing, PageStart + 1, PageEnd)
            /\ retrieve_chunks' = SubSeq(listing, 1, PageEnd)
            /\ pc' = IF next_token' = <<>> THEN "consolidate" ELSE "query"]_vars

\* a fetch of more entries than one page holds is complete
PaginationFollowWitness ==
    /\ pc = "consolidate"
    /\ Len(listing) > MaxResults
    /\ retrieve_chunks = listing
    /\ next_token = <<>>

\* ---------------------------------------------------------------------
\* C15  Orchestrator step order.  The statements of run() are visited in
\* one order: the new document is loaded, then the path is fetched, then
\* the first gate, then the diff is computed and rendered, then the
\* second gate, then (for a project that was found) the backup and the
\* delete, then the write and the report.
Position(step) ==
    IF \E n \in 1..Len(steps) : steps[n] = step
    THEN CHOOSE n \in 1..Len(steps) : steps[n] = step
    ELSE 0

\* step b is not reached before step a was
Precedes(a, b) ==
    Position(b) # 0 => Position(a) # 0 /\ Position(a) < Position(b)

\* the order as stated: the fetch first, the load and the diff between the
\* fetch and the first gate
FetchFirstOrder ==
    /\ steps # <<>> => steps[1] = "query"
    /\ Precedes("consolidate", "load")
    /\ Precedes("load", "summary")
    /\ Precedes("summary", "confirm1")
    /\ Precedes("confirm1", "confirm2")
    /\ Precedes("confirm2", "backup")
    /\ Precedes("backup", "delete")
    /\ Precedes("delete", "dumps")

RunOrder(found) ==
    <<"load", "query", "consolidate", "confirm1", "summary", "confirm2">>
    \o (IF found THEN <<"backup", "backup_write", "delete">> ELSE <<>>)
    \o <<"dumps", "chunkenize", "put">>

IsPrefix(s, t) == Len(s) <= Len(t) /\ s = SubSeq(t, 1, Len(s))

\* the order of the code
LoadFirstOrder ==
    /\ \E found \in BOOLEAN : IsPrefix(steps, RunOrder(found))
    /\ Position("confirm2") # 0 /\ Len(steps) > Position("confirm2")
         => IsPrefix(steps, RunOrder(project_found))
    /\ reported # <<>> => steps = RunOrder(project_found)

\* a replacement that ran to its report
LoadFirstOrderWitness ==
    /\ pc = "done"
    /\ project_found
    /\ reported # <<>>
    /\ steps = RunOrder(TRUE)

\* ---------------------------------------------------------------------
\* C16  No stale chunks after a successful replace: when a run on an
\* existing project is done, it has made one delete call, whose names are
\* the names of the entries the fetch returned (each once), and the store
\* then holds the entries the run has put, part_0 .. part_{n-1}, and no
\* other: none of the old entries is left, however many there were.
NameSet(entries) == {entries[n].Name : n \in 1..Len(entries)}

NoStaleChunks ==
    (pc = "done" /\ project_found) =>
        LET deletes == Calls("delete")
            puts == Calls("put")
        IN  /\ Len(deletes) = 1
            /\ deletes[1].ok
            /\ Len(deletes[1].Names) = Len(store_at_start)
            /\ Elements(deletes[1].Names) = NameSet(store_at_start)
            /\ Len(store) = Len(write_chunks)
            /\ \A n \in 1..Len(store) :
                  /\ store[n].Name = part_name(n - 1)
                  /\ store[n].Value = write_chunks[n]
                  /\ puts[n].ok /\ puts[n].Name = store[n].Name
            /\ Len(puts) = Len(store)

\* the old project had more chunks than the new one
NoStaleChunksWitness ==
    /\ pc = "done"
    /\ project_found
    /\ Len(store_at_start) > Len(store)
    /\ store # <<>>
    /\ Calls("delete") # <<>>

\* ---------------------------------------------------------------------
\* C17  The existing-project test is on the physical entries: when the
\* fetch returned at least one entry and the entries reassemble to the
\* empty object {}, the project counts as found, the first prompt asks
\* for replacement, and once both prompts are accepted the run goes to
\* the backup and the delete: no put is made and the write is not
\* reached before the backup is written and the fetched names deleted.
FetchedEmptyObject ==
    /\ retrieve_chunks # <<>>
    /\ consolidated_str # <<>>
    /\ json_loads(consolidated_str).ok
    /\ json_loads(consolidated_str).doc = <<>>

EmptyObjectIsProject ==
    FetchedEmptyObject =>
        /\ project_found
        /\ parameters = <<>>
        /\ parameters_names = names_of(retrieve_chunks)
        /\ message = "replace"
        /\ (Len(answers) = 2 /\ ~Declines(answers[2]))
              => \/ pc = "backup"
                 \/ Len(steps) > 6 /\ steps[7] = "backup"
        /\ (Calls("put") # <<>> \/ pc \in {"dumps", "chunkenize", "put", "done"})
              => /\ BackupHeld
                 /\ calls[1].op = "delete"
                 /\ calls[1].ok
                 /\ calls[1].Names = parameters_names
                 /\ Precedes("delete", "dumps")

\* an empty object held in the store is replaced by a document with keys
EmptyObjectIsProjectWitness ==
    /\ FetchedEmptyObject
    /\ pc = "done"
    /\ json_contents # <<>>
    /\ Calls("delete") # <<>>
    /\ BackupHeld

\* ---------------------------------------------------------------------
\* C18  Summary table shape: the lines returned are the title line, the
\* rule, and then as many rows as the longest of the four key lists has
\* keys; the i-th row holds in each column the i-th key of that column's
\* list, padded with blanks, or blanks only (nothing, in the last column)
\* where the list has no i-th key.  Two empty dicts give no row.
Longest(lists) ==
    CHOOSE k \in {Len(l) : l \in lists} : \A l \in lists : Len(l) <= k

\* the cell shows the i-th key of the list, or is empty
CellShows(cell, list, i) ==
    LET key == IF i <= Len(list) THEN list[i] ELSE <<>>
    IN  /\ Len(cell) >= Len(key)
        /\ SubSeq(cell, 1, Len(key)) = key
        /\ \A n \in (Len(key) + 1)..Len(cell) : cell[n] = " "

TableShape ==
    pc = "confirm2" =>
        /\ Len(lines) = 2 + Longest({missing, added, changed, unchanged})
        /\ lines[1].kind = "titles"
        /\ lines[2].kind = "rule"
        /\ \A i \in 1..(Len(lines) - 2) :
              /\ lines[i + 2].kind = "row"
              /\ Len(lines[i + 2].cells) = 4
              /\ CellShows(lines[i + 2].cells[1], missing, i)
              /\ CellShows(lines[i + 2].cells[2], added, i)
              /\ CellShows(lines[i + 2].cells[3], changed, i)
              /\ CellShows(lines[i + 2].cells[4], unchanged, i)
              /\ \A col \in 1..3 : Len(lines[i + 2].cells[col]) = COLUMN_SPACING
              /\ i > Len(unchanged) => lines[i + 2].cells[4] = <<>>
        /\ (parameters = <<>> /\ json_contents = <<>>) => Len(lines) = 2

\* lists of different lengths: a second row with a key in the first column
\* only
TableShapeWitness ==
    /\ pc = "confirm2"
    /\ Len(lines) = 4
    /\ Len(missing) = 2
    /\ Len(added) = 1
    /\ unchanged = <<>>
    /\ lines[4].cells[1] = ljust(missing[2], COLUMN_SPACING)
    /\ lines[4].cells[2] = ljust(<<>>, COLUMN_SPACING)

\* ---------------------------------------------------------------------
\* C19  No accumulation across fetches: the default list of query_ssm's
\* parameters argument is empty at every moment of every run, a fetch
\* starts from no entry, and what a fetch has accumulated when the last
\* page is in is what the store lists under the path, no entry more.
NoAccumulation ==
    /\ default_parameters = <<>>
    /\ (pc = "query" /\ first_call) => retrieve_chunks = <<>>
    /\ pc = "consolidate" => retrieve_chunks = listing
    /\ pc \in {"confirm1", "summary", "confirm2", "backup", "backup_write"}
          => /\ Len(retrieve_chunks) = Len(store_at_start)
             /\ Elements(retrieve_chunks) = Elements(store_at_start)

\* a fetch of several pages from a store an earlier run has fetched and
\* written
NoAccumulationWitness ==
    /\ pc = "consolidate"
    /\ last_written.set
    /\ Len(listing) > 1
    /\ retrieve_chunks = listing
    /\ default_parameters = <<>>

====
